---- MODULE Spec2Model ----
(***************************************************************************)
(* Model of the real-time speech-recognition session registry of           *)
(* RoleVerse (backend/services/audio_service.py, class AudioService):      *)
(* start_real_time_speech_recognition, stop_real_time_speech_recognition,  *)
(* process_audio_stream and the RecognitionCallbackHandler the SDK calls   *)
(* back on its own thread.  The Flask request threads (app.py, run_async)  *)
(* run the service methods concurrently without any lock, so every        *)
(* statement that reads or writes the shared dictionaries is a step of its *)
(* own.  The DashScope Recognition object is an external collaborator and  *)
(* is modelled as a nondeterministic environment.                          *)
(*                                                                         *)
(* The second part models the turn of a chat                               *)
(* (backend/services/conversation_service.py, class ConversationService):  *)
(* chat, create_conversation, add_message, delete_conversation and         *)
(* update_conversation_title.  The service holds no lock either, so every  *)
(* round trip to the store (backend/utils/redis_client.py) and the awaited *)
(* completion are steps of their own; a store operation may fail.          *)
(***************************************************************************)
EXTENDS Integers, Sequences, FiniteSets, TLC

(* ------------------------------ bounds --------------------------------- *)
MaxCalls == 3
MaxEvents == 2
MaxAccEvents == 4
MaxTurns == 2
MaxHistory == 22
MaxFaults == 1
MaxStored == 5

(* ------------------------------ values --------------------------------- *)
\* every request runs the service method on a thread of its own; a run of the
\* model holds at most MaxCalls requests, so at most MaxCalls sessions
Calls == 1..MaxCalls
SessionIds == 1..MaxCalls
\* an id no uuid4() call ever produced (a client may send any string)
UnknownId == 0

\* error texts of the tagged error results
SessionNotFound == "session_not_found"
SessionNotActive == "session_stopped"
KeyErrorText == "key_error"
StreamErrorText == "stream_error"
\* str(e) of what numpy raises for audio_data that is not a list of numbers
ValueErrorText == "invalid literal for int()"

\* a text is a sequence of characters; NoneText is Python's None
NoneText == <<"None">>
SP == <<" ">>

(* ------------------------- transcript events --------------------------- *)
\* RecognitionResult.get_sentence(): a dict (with 'end_time' set on a final
\* sentence) or something else (a list of sentences)
Ev(d, f, t) == [dict |-> d, final |-> f, text |-> t]

\* events the streams of the registry model deliver
Events ==
    { Ev(TRUE, TRUE, <<"a">>), Ev(TRUE, FALSE, <<"b">>) }

\* events of the accumulator specification
AccEvents ==
    { Ev(TRUE, TRUE, <<"a">>), Ev(TRUE, TRUE, <<" ", "b">>), Ev(TRUE, TRUE, <<>>),
      Ev(TRUE, TRUE, SP), Ev(TRUE, FALSE, <<"c">>), Ev(FALSE, TRUE, <<"c">>),
      Ev(TRUE, TRUE, NoneText) }

\* str.strip() restricted to the blank character of the model
RECURSIVE LStrip(_)
LStrip(t) == IF t # <<>> /\ Head(t) = " " THEN LStrip(Tail(t)) ELSE t

RECURSIVE RStrip(_)
RStrip(t) ==
    IF t # <<>> /\ t[Len(t)] = " " THEN RStrip(SubSeq(t, 1, Len(t) - 1)) ELSE t

Strip(t) == RStrip(LStrip(t))

\* the accumulating branch is taken without the strip() test
Accumulates_NoStrip(e) ==
    /\ e.dict
    /\ e.final
    /\ e.text # NoneText

\* on_event takes the accumulating branch: a dict sentence with an end_time
\* whose text is non-blank after strip(); text None raises inside the try
\* block and is swallowed by the handler's except
Accumulates(e) ==
    /\ e.dict
    /\ e.final
    /\ e.text # NoneText
    /\ Strip(e.text) # <<>>

\* the statements of on_event's try block raise on this event: text.strip()
\* of a text that is None
RaisesInTry(e) == e.dict /\ e.final /\ e.text = NoneText

\* on_event's `except Exception` clause catches the error
Caught(kind) == kind \in {"AttributeError", "TypeError", "KeyError"}

\* an exception leaves on_event
Escapes(e) == RaisesInTry(e) /\ ~Caught("AttributeError")

\* the fragment replaces the text instead of being appended to it
AppendFragment_Overwrite(acc, text) == text

\* "if self.final_text: self.final_text += ' ' + text else: self.final_text = text"
AppendFragment(acc, text) == IF acc # <<>> THEN acc \o SP \o text ELSE text

(* ------------------------------ state ---------------------------------- *)
VARIABLES
    active_sessions,        \* AudioService.active_sessions: id -> session_data
    recognition_callbacks,  \* AudioService.recognition_callbacks: id -> handler
    final_text,             \* RecognitionCallbackHandler.final_text, per handler
    stream,                 \* state of the Recognition object made for each id
    used,                   \* ids uuid4() has produced
    known,                  \* ids a successful start has returned to a client
    pc,                     \* position of each request thread
    op,                     \* the service method each request calls
    sid,                    \* session_id of the call a thread runs
    loc_text,               \* local final_text of stop_real_time_speech_recognition
    result,                 \* the dict the call returned
    delivered,              \* history: events each stream delivered, in order
    n_events,               \* history: events delivered in all
    stop_calls,             \* history: invocations of recognition.stop() per id
    unreg_at_call,          \* history: the id was in neither map when stop began
    after_stop,             \* history: a stop on the id had returned when stop began
    closed_at_call,         \* history: the id's stream was closed when feed began
    stop_returned,          \* history: ids on which some stop call has returned
    invoked_stop,           \* history: the call has invoked recognition.stop()
    cb_error,               \* history: an exception has left on_event
    at_store,               \* ids whose on_event has passed its membership test
    conversations,          \* the store: conversation:<id> -> Conversation
    user_conversations,     \* the store: user_conversations:<user> list
    character_conversations,\* the store: character_conversations:<character> list
    faults,                 \* store operations that have failed so far
    turn                    \* each chat call: position, request, locals, response

vars == <<active_sessions, recognition_callbacks, final_text, stream, used, known,
          pc, op, sid, loc_text, result, delivered, n_events, stop_calls,
          unreg_at_call, after_stop, closed_at_call, stop_returned, invoked_stop,
          cb_error, at_store, conversations, user_conversations, character_conversations,
          faults, turn>>

registry == <<active_sessions, recognition_callbacks>>
threads == <<pc, op, sid, loc_text, result>>
history == <<delivered, n_events, stop_calls, unreg_at_call, after_stop,
             closed_at_call, stop_returned, invoked_stop>>
callflags == <<unreg_at_call, after_stop, closed_at_call>>
store == <<conversations, user_conversations, character_conversations>>
chat == <<store, faults, turn>>
audio == <<registry, final_text, stream, used, known, threads, history, cb_error, at_store>>

NoResult == [pending |-> TRUE]
Removed(f, k) == [x \in DOMAIN f \ {k} |-> f[x]]
\* redis SET: the key holds the value afterwards, whether or not it was there
set_data(f, key, value) ==
    [x \in DOMAIN f \cup {key} |-> IF x = key THEN value ELSE f[x]]
Min(S) == CHOOSE x \in S : \A y \in S : x <= y

(* ------------------------- conversation turns --------------------------- *)
Turns == 1..MaxTurns
Users == {"u1"}
Characters == {"c1"}
UnknownCharacter == "cx"
\* a request without conversation_id (None), and the "" of an error response
NoId == 0
\* a conversation_id that names nothing in the store
StaleId == 99
None == [k |-> "None"]

\* texts: the user's input of a turn, the completion's reply to it
Input(t) == [k |-> "input", n |-> t]
Reply(t) == [k |-> "reply", n |-> t]
PromptTemplate(ch) == [k |-> "prompt_template", of |-> ch]
\* prompt_template followed by the reply guidelines
EnhancedPrompt(ch) == [k |-> "enhanced_prompt", of |-> ch]
Raised(stage, detail) == [stage |-> stage, detail |-> detail]
\* the reply text of the except branch of chat
Apology(e) == [k |-> "apology", err |-> e]

\* conversation_service.py:292, conversation.messages[-20:]
HistoryWindow == 20

Message(id, role, content, type) ==
    [message_id |-> id, role |-> role, content |-> content, message_type |-> type]

\* f"与{character.name}的对话", the title create_conversation gives
DefaultTitle(ch) == [k |-> "title_of", of |-> ch]

NewConversation(id, user, ch) ==
    [conversation_id |-> id, user_id |-> user, character_id |-> ch,
     title |-> DefaultTitle(ch), messages |-> <<>>]

ChatRequest(user, ch, id, msg, type) ==
    [user_id |-> user, character_id |-> ch, conversation_id |-> id,
     message |-> msg, message_type |-> type]

IdleTurn ==
    [pc |-> "idle", route |-> "none", request |-> None, conversation |-> None,
     conversation_id |-> NoId, loaded |-> None, messages |-> <<>>,
     ai_content |-> None, response |-> None, items |-> <<>>, todo |-> <<>>,
     created |-> FALSE, create_failed |-> FALSE,
     completions |-> 0, completion |-> "none",
     completion_up |-> FALSE, synthesis_up |-> FALSE, syntheses |-> 0]

ChatInit ==
    /\ conversations = <<>>
    /\ user_conversations = [u \in Users |-> <<>>]
    /\ character_conversations = [ch \in Characters |-> <<>>]
    /\ faults = 0
    /\ turn = [t \in Turns |-> IdleTurn]

AudioInit ==
    /\ active_sessions = <<>>
    /\ recognition_callbacks = <<>>
    /\ final_text = [s \in SessionIds |-> <<>>]
    /\ stream = [s \in SessionIds |-> "unopened"]
    /\ used = {}
    /\ known = {}
    /\ pc = [c \in Calls |-> "idle"]
    /\ op = [c \in Calls |-> "none"]
    /\ sid = [c \in Calls |-> UnknownId]
    /\ loc_text = [c \in Calls |-> <<>>]
    /\ result = [c \in Calls |-> NoResult]
    /\ delivered = [s \in SessionIds |-> <<>>]
    /\ n_events = 0
    /\ stop_calls = [s \in SessionIds |-> 0]
    /\ unreg_at_call = [c \in Calls |-> FALSE]
    /\ after_stop = [c \in Calls |-> FALSE]
    /\ closed_at_call = [c \in Calls |-> FALSE]
    /\ stop_returned = {}
    /\ invoked_stop = [c \in Calls |-> FALSE]
    /\ cb_error = FALSE
    /\ at_store = {}

Init == AudioInit /\ ChatInit

(* -------------------------- request threads ----------------------------- *)
\* requests arrive in the order of their numbers
Arrives(c) ==
    /\ pc[c] = "idle"
    /\ \A d \in Calls : d < c => pc[d] # "idle"

\* the stream has closed: after a stop ("closed") or on its own ("dropped")
StreamClosed(s) == stream[s] \in {"closed", "dropped"}

(* ------------------- the recognition stream's callbacks ----------------- *)
\* RecognitionCallbackHandler.on_event, run from its first line to its last
\* while no request is being served
on_event(s, e) ==
    /\ IF Accumulates(e)
       THEN /\ final_text' = [final_text EXCEPT ![s] = AppendFragment(@, e.text)]
            /\ active_sessions' =
                   IF s \in DOMAIN active_sessions
                   THEN [active_sessions EXCEPT
                            ![s].recognized_text = AppendFragment(final_text[s], e.text)]
                   ELSE active_sessions
       ELSE UNCHANGED <<final_text, active_sessions>>
    /\ delivered' = [delivered EXCEPT ![s] = Append(@, e)]
    /\ n_events' = n_events + 1
    /\ cb_error' = (cb_error \/ Escapes(e))

\* RecognitionCallbackHandler.on_close: logs, and leaves the registry alone
on_close(s) == UNCHANGED registry

\* the connection drops although nobody asked the stream to stop
StreamDrop(s) ==
    /\ stream[s] = "started"
    /\ stream' = [stream EXCEPT ![s] = "dropped"]
    /\ on_close(s)
    /\ UNCHANGED <<chat, cb_error, at_store, final_text, used, known, threads, history>>

\* the stream confirms the closure recognition.stop() asked for
StreamConfirm(s) ==
    /\ stream[s] = "stopping"
    /\ stream' = [stream EXCEPT ![s] = "closed"]
    /\ on_close(s)
    /\ UNCHANGED <<chat, cb_error, at_store, final_text, used, known, threads, history>>

(* ---------------- start_real_time_speech_recognition -------------------- *)
\* every session is given the Recognition object of the first one
session_data_shared(s) ==
    [active |-> TRUE, recognized_text |-> <<>>,
     recognition_instance |-> Min(used), callback_handler |-> s]

\* the session data of a new session
session_data(s) ==
    [active |-> TRUE, recognized_text |-> <<>>,
     recognition_instance |-> s, callback_handler |-> s]

\* session_id = str(uuid.uuid4()): an id never produced before
NewSessionId == Min(SessionIds \ used)

Finish(c, r) ==
    /\ pc' = [pc EXCEPT ![c] = "done"]
    /\ result' = [result EXCEPT ![c] = r]

Goto(c, l) ==
    /\ pc' = [pc EXCEPT ![c] = l]
    /\ UNCHANGED result

\* the id and the callback handler are made
start_begin(c) ==
    /\ Arrives(c)
    /\ op' = [op EXCEPT ![c] = "start"]
    /\ sid' = [sid EXCEPT ![c] = NewSessionId]
    /\ used' = used \cup {NewSessionId}
    /\ final_text' = [final_text EXCEPT ![NewSessionId] = <<>>]
    /\ Goto(c, "start_open")
    /\ UNCHANGED <<chat, cb_error, at_store, registry, stream, known, loc_text, history>>

\* the session is registered before the stream is opened, and stays
\* registered when the opening fails
start_open_registers_first(c) ==
    /\ pc[c] = "start_open"
    /\ \/ /\ stream' = [stream EXCEPT ![sid[c]] = "started"]
          /\ Goto(c, "start_register")
          /\ UNCHANGED registry
       \/ /\ Finish(c, [success |-> FALSE, error |-> StreamErrorText])
          /\ active_sessions' =
                 [x \in DOMAIN active_sessions \cup {sid[c]} |->
                     IF x = sid[c] THEN session_data(x) ELSE active_sessions[x]]
          /\ UNCHANGED <<stream, recognition_callbacks>>
    /\ UNCHANGED <<chat, cb_error, at_store, final_text, used, known, op, sid, loc_text, history>>

\* recognition.start() opens the stream, or raises
start_open(c) ==
    /\ pc[c] = "start_open"
    /\ \/ /\ stream' = [stream EXCEPT ![sid[c]] = "started"]
          /\ Goto(c, "start_register")
       \/ /\ Finish(c, [success |-> FALSE, error |-> StreamErrorText])
          /\ UNCHANGED stream
    /\ UNCHANGED <<chat, cb_error, at_store, registry, final_text, used, known, op, sid, loc_text, history>>

\* only the callback handler is stored, the session is not
start_register_callbacks_only(c) ==
    /\ pc[c] = "start_register"
    /\ Goto(c, "start_callback")
    /\ UNCHANGED <<chat, cb_error, at_store, registry, final_text, stream, used, known, op, sid,
                   loc_text, history>>

\* self.active_sessions[session_id] = session_data
start_register(c) ==
    /\ pc[c] = "start_register"
    /\ active_sessions' =
           [x \in DOMAIN active_sessions \cup {sid[c]} |->
               IF x = sid[c] THEN session_data(x) ELSE active_sessions[x]]
    /\ Goto(c, "start_callback")
    /\ UNCHANGED <<chat, cb_error, at_store, recognition_callbacks, final_text, stream, used,
                   known, op, sid, loc_text, history>>

\* self.recognition_callbacks[session_id] = callback_handler; the id is
\* returned, and only from here on can a request name it
start_callback(c) ==
    /\ pc[c] = "start_callback"
    /\ recognition_callbacks' =
           [x \in DOMAIN recognition_callbacks \cup {sid[c]} |->
               IF x = sid[c] THEN x ELSE recognition_callbacks[x]]
    /\ known' = known \cup {sid[c]}
    /\ Finish(c, [success |-> TRUE, session_id |-> sid[c]])
    /\ UNCHANGED <<chat, cb_error, at_store, active_sessions, final_text, stream, used, op, sid,
                   loc_text, history>>

(* ----------------- stop_real_time_speech_recognition -------------------- *)
StopOk(text) == [success |-> TRUE, text |-> text]
\* the "except KeyError" return: success without a text
StopKeyError == [success |-> TRUE]

FinishStop(c, r) ==
    /\ Finish(c, r)
    /\ stop_returned' = stop_returned \cup {sid[c]}

\* the session is looked up: "if session_id in self.active_sessions"
stop_found(s) == s \in DOMAIN active_sessions

\* final_text = ""; if session_id in self.active_sessions
stop_begin(c, s) ==
    /\ Arrives(c)
    /\ op' = [op EXCEPT ![c] = "stop"]
    /\ sid' = [sid EXCEPT ![c] = s]
    /\ loc_text' = [loc_text EXCEPT ![c] = <<>>]
    /\ Goto(c, IF stop_found(s) THEN "stop_read" ELSE "stop_cb_check")
    /\ unreg_at_call' = [unreg_at_call EXCEPT
           ![c] = s \notin DOMAIN active_sessions /\ s \notin DOMAIN recognition_callbacks]
    /\ after_stop' = [after_stop EXCEPT
           ![c] = /\ s \in stop_returned
                  /\ \A d \in Calls :
                        ~(op[d] = "stop" /\ sid[d] = s /\ pc[d] # "done")]
    /\ UNCHANGED <<chat, cb_error, at_store, registry, final_text, stream, used, known, delivered, n_events,
                   stop_calls, closed_at_call, stop_returned, invoked_stop>>

\* session_data = self.active_sessions[session_id];
\* final_text = session_data.get('recognized_text', '')
stop_read(c) ==
    /\ pc[c] = "stop_read"
    /\ IF sid[c] \in DOMAIN active_sessions
       THEN /\ loc_text' = [loc_text EXCEPT ![c] = active_sessions[sid[c]].recognized_text]
            /\ Goto(c, "stop_call")
            /\ UNCHANGED stop_returned
       ELSE /\ FinishStop(c, StopKeyError)
            /\ UNCHANGED loc_text
    /\ UNCHANGED <<chat, cb_error, at_store, registry, final_text, stream, used, known, op, sid, delivered,
                   n_events, stop_calls, callflags, invoked_stop>>

\* recognition.stop() is called: an open stream starts to close and the call
\* blocks; on a stream that is no longer open it blocks or raises at once
stop_call(c) ==
    /\ pc[c] = "stop_call"
    /\ stop_calls' = [stop_calls EXCEPT ![sid[c]] = @ + 1]
    /\ invoked_stop' = [invoked_stop EXCEPT ![c] = TRUE]
    /\ IF stream[sid[c]] = "started"
       THEN /\ stream' = [stream EXCEPT ![sid[c]] = "stopping"]
            /\ Goto(c, "stop_wait")
       ELSE /\ UNCHANGED stream
            /\ \/ Goto(c, "stop_wait")
               \/ Goto(c, "stop_del")
    /\ UNCHANGED <<chat, cb_error, at_store, registry, final_text, used, known, op, sid, loc_text, delivered,
                   n_events, callflags, stop_returned>>

\* recognition.stop() comes back (or raises, which is only logged) once the
\* stream has confirmed closure
stop_return(c) ==
    /\ pc[c] = "stop_wait"
    /\ StreamClosed(sid[c])
    /\ Goto(c, "stop_del")
    /\ UNCHANGED <<chat, cb_error, at_store, registry, final_text, stream, used, known, op, sid, loc_text, history>>

\* the session is left in active_sessions
stop_del_keeps(c) ==
    /\ pc[c] = "stop_del"
    /\ Goto(c, "stop_cb_check")
    /\ UNCHANGED <<chat, cb_error, at_store, registry, final_text, stream, used, known, op, sid, loc_text, history>>

\* every session is dropped, not only the one stopped
stop_del_clears(c) ==
    /\ pc[c] = "stop_del"
    /\ active_sessions' = <<>>
    /\ Goto(c, "stop_cb_check")
    /\ UNCHANGED <<chat, cb_error, at_store, recognition_callbacks, final_text, stream, used, known, op, sid,
                   loc_text, history>>

\* del self.active_sessions[session_id]
stop_del(c) ==
    /\ pc[c] = "stop_del"
    /\ IF sid[c] \in DOMAIN active_sessions
       THEN /\ active_sessions' = Removed(active_sessions, sid[c])
            /\ Goto(c, "stop_cb_check")
            /\ UNCHANGED stop_returned
       ELSE /\ FinishStop(c, StopKeyError)
            /\ UNCHANGED active_sessions
    /\ UNCHANGED <<chat, cb_error, at_store, recognition_callbacks, final_text, stream, used, known, op, sid,
                   loc_text, delivered, n_events, stop_calls, callflags, invoked_stop>>

\* the callback entry is deleted without the membership test
stop_cb_check_unguarded(c) ==
    /\ pc[c] = "stop_cb_check"
    /\ Goto(c, "stop_cb_del")
    /\ UNCHANGED <<chat, cb_error, at_store, registry, final_text, stream, used, known, op, sid, loc_text, history>>

\* if session_id in self.recognition_callbacks
stop_cb_check(c) ==
    /\ pc[c] = "stop_cb_check"
    /\ IF sid[c] \in DOMAIN recognition_callbacks
       THEN /\ Goto(c, "stop_cb_del")
            /\ UNCHANGED stop_returned
       ELSE FinishStop(c, StopOk(loc_text[c]))
    /\ UNCHANGED <<chat, cb_error, at_store, registry, final_text, stream, used, known, op, sid, loc_text,
                   delivered, n_events, stop_calls, callflags, invoked_stop>>

\* the callback handler is left in recognition_callbacks
stop_cb_del_keeps(c) ==
    /\ pc[c] = "stop_cb_del"
    /\ FinishStop(c, StopOk(loc_text[c]))
    /\ UNCHANGED <<chat, cb_error, at_store, registry, final_text, stream, used, known, op, sid,
                   loc_text, delivered, n_events, stop_calls, callflags, invoked_stop>>

\* del self.recognition_callbacks[session_id]; return
stop_cb_del(c) ==
    /\ pc[c] = "stop_cb_del"
    /\ IF sid[c] \in DOMAIN recognition_callbacks
       THEN /\ recognition_callbacks' = Removed(recognition_callbacks, sid[c])
            /\ FinishStop(c, StopOk(loc_text[c]))
       ELSE /\ FinishStop(c, StopKeyError)
            /\ UNCHANGED recognition_callbacks
    /\ UNCHANGED <<chat, cb_error, at_store, active_sessions, final_text, stream, used, known, op, sid, loc_text,
                   delivered, n_events, stop_calls, callflags, invoked_stop>>

(* ------------------------- process_audio_stream ------------------------- *)
FeedError(e) == [success |-> FALSE, error |-> e]
FeedOk == [success |-> TRUE]

\* the membership test is left out: the lookup of the next line raises
feed_begin_unchecked(c, s) ==
    /\ Arrives(c)
    /\ op' = [op EXCEPT ![c] = "feed"]
    /\ sid' = [sid EXCEPT ![c] = s]
    /\ closed_at_call' = [closed_at_call EXCEPT
           ![c] = s \in SessionIds /\ StreamClosed(s)]
    /\ Goto(c, "feed_get")
    /\ UNCHANGED <<chat, cb_error, at_store, registry, final_text, stream, used, known, loc_text, delivered,
                   n_events, stop_calls, unreg_at_call, after_stop, stop_returned,
                   invoked_stop>>

\* if session_id not in self.active_sessions: return the not-found error
feed_begin(c, s) ==
    /\ Arrives(c)
    /\ op' = [op EXCEPT ![c] = "feed"]
    /\ sid' = [sid EXCEPT ![c] = s]
    /\ closed_at_call' = [closed_at_call EXCEPT
           ![c] = s \in SessionIds /\ StreamClosed(s)]
    /\ IF s \notin DOMAIN active_sessions
       THEN Finish(c, FeedError(SessionNotFound))
       ELSE Goto(c, "feed_get")
    /\ UNCHANGED <<chat, cb_error, at_store, registry, final_text, stream, used, known, loc_text, delivered,
                   n_events, stop_calls, unreg_at_call, after_stop, stop_returned,
                   invoked_stop>>

\* the audio_data a client can send: a list of 16-bit samples, or a list
\* whose items are not numbers
AudioData == {"samples", "text"}

\* np.array(audio_data, dtype=np.int16).tobytes(): the bytes of the
\* samples, or the text of the exception raised for what is not a number
tobytes(audio_data) ==
    IF audio_data = "samples" THEN [bytes |-> "pcm"]
    ELSE [raised |-> ValueErrorText]

\* session_data = self.active_sessions[session_id]; the 'active' check; the
\* stream handle is taken from the session and the audio_data of the call is
\* converted to bytes, all inside the try block
feed_get(c) ==
    /\ pc[c] = "feed_get"
    /\ IF sid[c] \notin DOMAIN active_sessions
       THEN Finish(c, FeedError(KeyErrorText))
       ELSE IF ~active_sessions[sid[c]].active
            THEN Finish(c, FeedError(SessionNotActive))
            ELSE \E audio_data \in AudioData :
                    IF "raised" \in DOMAIN tobytes(audio_data)
                    THEN Finish(c, FeedError(tobytes(audio_data).raised))
                    ELSE Goto(c, "feed_send")
    /\ UNCHANGED <<chat, cb_error, at_store, registry, final_text, stream, used, known, op, sid, loc_text, history>>

\* the exception of send_audio_frame leaves process_audio_stream
feed_send_raises(c) ==
    /\ pc[c] = "feed_send"
    /\ \/ Finish(c, FeedOk)
       \/ /\ stream[sid[c]] # "started"
          /\ Finish(c, [raised |-> StreamErrorText])
    /\ UNCHANGED <<chat, cb_error, at_store, registry, final_text, stream, used, known, op, sid, loc_text, history>>

\* recognition.send_audio_frame(audio_bytes): an open stream takes the frame;
\* one that is closing or closed takes it or raises
feed_send(c) ==
    /\ pc[c] = "feed_send"
    /\ \/ Finish(c, FeedOk)
       \/ /\ stream[sid[c]] # "started"
          /\ Finish(c, FeedError(StreamErrorText))
    /\ UNCHANGED <<chat, cb_error, at_store, registry, final_text, stream, used, known, op, sid, loc_text, history>>

\* ids a client can send: those a start returned, or any other string
ClientIds == known \cup {UnknownId}

\* a step of a call in progress
Step(c) ==
    \/ start_open(c)
    \/ start_register(c)
    \/ start_callback(c)
    \/ stop_read(c)
    \/ stop_call(c)
    \/ stop_return(c)
    \/ stop_del(c)
    \/ stop_cb_check(c)
    \/ stop_cb_del(c)
    \/ feed_get(c)
    \/ feed_send(c)

\* a client sends a request
StartRequest == \E c \in Calls : start_begin(c)
StopRequest == \E c \in Calls : \E s \in ClientIds : stop_begin(c, s)
FeedRequest == \E c \in Calls : \E s \in ClientIds : feed_begin(c, s)


(* ---------------------- two sessions being served ------------------------ *)
\* two sessions have been started and registered, their streams are open;
\* clients send feed and stop requests for them
InitTwo ==
    /\ active_sessions = [x \in {1, 2} |-> session_data(x)]
    /\ recognition_callbacks = [x \in {1, 2} |-> x]
    /\ final_text = [s \in SessionIds |-> <<>>]
    /\ stream = [s \in SessionIds |-> IF s \in {1, 2} THEN "started" ELSE "unopened"]
    /\ used = {1, 2}
    /\ known = {1, 2}
    /\ pc = [c \in Calls |-> "idle"]
    /\ op = [c \in Calls |-> "none"]
    /\ sid = [c \in Calls |-> UnknownId]
    /\ loc_text = [c \in Calls |-> <<>>]
    /\ result = [c \in Calls |-> NoResult]
    /\ delivered = [s \in SessionIds |-> <<>>]
    /\ n_events = 0
    /\ stop_calls = [s \in SessionIds |-> 0]
    /\ unreg_at_call = [c \in Calls |-> FALSE]
    /\ after_stop = [c \in Calls |-> FALSE]
    /\ closed_at_call = [c \in Calls |-> FALSE]
    /\ stop_returned = {}
    /\ invoked_stop = [c \in Calls |-> FALSE]
    /\ cb_error = FALSE
    /\ at_store = {}
    /\ ChatInit

\* a step of a stop or feed call is held back while another call waits for
\* its stream to close, as under one lock around the service
ServeStep_Locked(c) ==
    /\ \A d \in Calls \ {c} : pc[d] # "stop_wait"
    /\ \/ stop_read(c)
       \/ stop_call(c)
       \/ stop_return(c)
       \/ stop_del(c)
       \/ stop_cb_check(c)
       \/ stop_cb_del(c)
       \/ feed_get(c)
       \/ feed_send(c)

\* a step of a stop or feed call in progress: each request runs on its own
\* thread and the service takes no lock
ServeStep(c) ==
    \/ stop_read(c)
    \/ stop_call(c)
    \/ stop_return(c)
    \/ stop_del(c)
    \/ stop_cb_check(c)
    \/ stop_cb_del(c)
    \/ feed_get(c)
    \/ feed_send(c)

\* the two streams stay silent: they deliver nothing and do not drop, they
\* only confirm the closure a stop has asked for
NextTwo ==
    \/ StopRequest
    \/ FeedRequest
    \/ \E c \in Calls : ServeStep(c)
    \/ \E s \in SessionIds : StreamConfirm(s)

SpecTwo == InitTwo /\ [][NextTwo]_vars

(* ------------- events that race with the stop of their session ---------- *)
\* on_event up to its membership test: the fragment is appended to the
\* handler's text, and the store into the session is still to come when the
\* id is in active_sessions at the test
on_event_test(s, e) ==
    /\ s \notin at_store
    /\ IF Accumulates(e)
       THEN /\ final_text' = [final_text EXCEPT ![s] = AppendFragment(@, e.text)]
            /\ at_store' = IF s \in DOMAIN active_sessions
                           THEN at_store \cup {s} ELSE at_store
       ELSE UNCHANGED <<final_text, at_store>>
    /\ delivered' = [delivered EXCEPT ![s] = Append(@, e)]
    /\ n_events' = n_events + 1
    /\ cb_error' = (cb_error \/ Escapes(e))
    /\ UNCHANGED active_sessions

\* the store makes the entry when the session is gone
on_event_store_recreates(s) ==
    /\ s \in at_store
    /\ at_store' = at_store \ {s}
    /\ active_sessions' =
           [x \in DOMAIN active_sessions \cup {s} |->
               IF x = s
               THEN [session_data(s) EXCEPT !.recognized_text = final_text[s]]
               ELSE active_sessions[x]]
    /\ UNCHANGED <<final_text, delivered, n_events, cb_error>>

\* self.audio_service.active_sessions[self.session_id]['recognized_text'] =
\* self.final_text: the subscript raises KeyError when a stop has deleted the
\* session since the test, and on_event's except clause takes the error
on_event_store(s) ==
    /\ s \in at_store
    /\ at_store' = at_store \ {s}
    /\ IF s \in DOMAIN active_sessions
       THEN /\ active_sessions' =
                   [active_sessions EXCEPT ![s].recognized_text = final_text[s]]
            /\ UNCHANGED cb_error
       ELSE /\ cb_error' = (cb_error \/ ~Caught("KeyError"))
            /\ UNCHANGED active_sessions
    /\ UNCHANGED <<final_text, delivered, n_events>>

\* session 1 is registered and its stream is open
InitLate ==
    /\ active_sessions = [x \in {1} |-> session_data(x)]
    /\ recognition_callbacks = [x \in {1} |-> x]
    /\ final_text = [s \in SessionIds |-> <<>>]
    /\ stream = [s \in SessionIds |-> IF s = 1 THEN "started" ELSE "unopened"]
    /\ used = {1}
    /\ known = {1}
    /\ pc = [c \in Calls |-> "idle"]
    /\ op = [c \in Calls |-> "none"]
    /\ sid = [c \in Calls |-> UnknownId]
    /\ loc_text = [c \in Calls |-> <<>>]
    /\ result = [c \in Calls |-> NoResult]
    /\ delivered = [s \in SessionIds |-> <<>>]
    /\ n_events = 0
    /\ stop_calls = [s \in SessionIds |-> 0]
    /\ unreg_at_call = [c \in Calls |-> FALSE]
    /\ after_stop = [c \in Calls |-> FALSE]
    /\ closed_at_call = [c \in Calls |-> FALSE]
    /\ stop_returned = {}
    /\ invoked_stop = [c \in Calls |-> FALSE]
    /\ cb_error = FALSE
    /\ at_store = {}
    /\ ChatInit

\* the callback thread of the stream enters on_event with a sentence
EventArrives(s) ==
    /\ stream[s] \in {"started", "stopping"}
    /\ n_events < MaxEvents
    /\ \E e \in Events : on_event_test(s, e)
    /\ UNCHANGED <<chat, recognition_callbacks, stream, used, known, threads,
                   stop_calls, callflags, stop_returned, invoked_stop>>

\* the callback thread goes on to the store
EventStores(s) ==
    /\ on_event_store(s)
    /\ UNCHANGED <<chat, recognition_callbacks, stream, used, known, threads,
                   stop_calls, callflags, stop_returned, invoked_stop>>

\* on_close is run by the callback thread, after the on_event it is in
EventsEnd(s) ==
    /\ s \notin at_store
    /\ StreamConfirm(s)

\* the connection drops: on_close is run by the callback thread, after the
\* on_event it is in
EventsBreak(s) ==
    /\ s \notin at_store
    /\ StreamDrop(s)

\* a step of a stop call in progress
StopStep(c) ==
    \/ stop_read(c)
    \/ stop_call(c)
    \/ stop_return(c)
    \/ stop_del(c)
    \/ stop_cb_check(c)
    \/ stop_cb_del(c)

NextLate ==
    \/ StopRequest
    \/ \E c \in Calls : StopStep(c)
    \/ \E s \in SessionIds : EventArrives(s)
    \/ \E s \in SessionIds : EventStores(s)
    \/ \E s \in SessionIds : EventsEnd(s)

SpecLate == InitLate /\ [][NextLate]_vars

Next ==
    \/ StartRequest
    \/ StopRequest
    \/ FeedRequest
    \/ \E c \in Calls : Step(c)
    \/ \E s \in SessionIds : EventArrives(s)
    \/ \E s \in SessionIds : EventStores(s)
    \/ \E s \in SessionIds : EventsBreak(s)
    \/ \E s \in SessionIds : EventsEnd(s)

Spec == Init /\ [][Next]_vars

(* ------------------ the accumulator on its own --------------------------- *)
\* one session has been started and registered; its stream delivers events of
\* every shape
InitAcc ==
    /\ active_sessions = [x \in {1} |-> session_data(1)]
    /\ recognition_callbacks = [x \in {1} |-> 1]
    /\ final_text = [s \in SessionIds |-> <<>>]
    /\ stream = [s \in SessionIds |-> IF s = 1 THEN "started" ELSE "unopened"]
    /\ used = {1}
    /\ known = {1}
    /\ pc = [c \in Calls |-> IF c = 1 THEN "done" ELSE "idle"]
    /\ op = [c \in Calls |-> IF c = 1 THEN "start" ELSE "none"]
    /\ sid = [c \in Calls |-> IF c = 1 THEN 1 ELSE UnknownId]
    /\ loc_text = [c \in Calls |-> <<>>]
    /\ result = [c \in Calls |->
                    IF c = 1 THEN [success |-> TRUE, session_id |-> 1] ELSE NoResult]
    /\ delivered = [s \in SessionIds |-> <<>>]
    /\ n_events = 0
    /\ stop_calls = [s \in SessionIds |-> 0]
    /\ unreg_at_call = [c \in Calls |-> FALSE]
    /\ after_stop = [c \in Calls |-> FALSE]
    /\ closed_at_call = [c \in Calls |-> FALSE]
    /\ stop_returned = {}
    /\ invoked_stop = [c \in Calls |-> FALSE]
    /\ cb_error = FALSE
    /\ at_store = {}
    /\ ChatInit

AccDeliver ==
    /\ n_events < MaxAccEvents
    /\ \E e \in AccEvents : on_event(1, e)
    /\ UNCHANGED <<chat, at_store, recognition_callbacks, stream, used, known,
                   threads, stop_calls, callflags, stop_returned, invoked_stop>>

NextAcc == AccDeliver

SpecAcc == InitAcc /\ [][NextAcc]_vars

(* --------------------------- the turn of a chat -------------------------- *)
\* turns arrive in the order of their numbers
TurnArrives(t) ==
    /\ turn[t].pc = "idle"
    /\ \A u \in Turns : u < t => turn[u].pc # "idle"

\* uuid4(): the conversation a turn creates and the two messages it adds get
\* ids no other call produces
ConversationIdOf(t) == t
MessageIdOf(t, role) == IF role = "user" THEN 2 * t - 1 ELSE 2 * t

\* a store operation may fail: the client is missing or the command raises
CanFail(n) == faults + n <= MaxFaults
Cost(b) == IF b THEN 0 ELSE 1

\* what get_conversation can return: the stored conversation, or None when the
\* key is absent or the store cannot be read
get_conversation(id) ==
    (IF id \in DOMAIN conversations THEN {conversations[id]} ELSE {None})
        \cup (IF CanFail(1) THEN {None} ELSE {})

\* the read that returned conv had failed
ReadCost(id, conv) == Cost(~(id \in DOMAIN conversations /\ conv = None))

\* get_character_by_id finds the character: never an unknown one, and a known
\* one unless the store cannot be read
character_found(ch) ==
    IF ch \in Characters THEN (IF CanFail(1) THEN BOOLEAN ELSE {TRUE}) ELSE {FALSE}

\* the window is one message longer
Recent_OffByOne(msgs) ==
    SubSeq(msgs,
           IF Len(msgs) > HistoryWindow + 1 THEN Len(msgs) - HistoryWindow ELSE 1,
           Len(msgs))

\* conversation.messages[-20:]
Recent(msgs) ==
    SubSeq(msgs,
           IF Len(msgs) > HistoryWindow THEN Len(msgs) - HistoryWindow + 1 ELSE 1,
           Len(msgs))

\* the loop of _build_chat_messages: user and assistant messages are passed
\* on, messages of any other role are skipped
RECURSIVE ChatEntries(_)
ChatEntries(msgs) ==
    IF msgs = <<>> THEN <<>>
    ELSE LET m == Head(msgs) IN
         (IF m.role \in {"user", "assistant"}
          THEN <<[role |-> m.role, content |-> m.content]>>
          ELSE <<>>) \o ChatEntries(Tail(msgs))

\* ConversationService._build_chat_messages
build_chat_messages(conversation, ch) ==
    <<[role |-> "system", content |-> EnhancedPrompt(ch)]>>
        \o ChatEntries(Recent(conversation.messages))

\* the ChatResponse of the except branch of chat
ErrorResponse(req, e) ==
    [conversation_id |-> req.conversation_id, message_id |-> NoId,
     response |-> Apology(e), audio_url |-> None, character_avatar_url |-> None]

\* the ChatResponse of a turn that ran to its end
ChatResponse(r, msg) ==
    [conversation_id |-> r.conversation_id, message_id |-> msg.message_id,
     response |-> r.ai_content, audio_url |-> None,
     character_avatar_url |-> r.request.character_id]

\* the exception leaves chat instead of becoming a reply
Failed_Propagates(r, e) ==
    [r EXCEPT !.pc = "done", !.response = [raised |-> e]]

\* an exception raised in chat's try block ends the turn in the except branch
Failed(r, e) ==
    [r EXCEPT !.pc = "done", !.response = ErrorResponse(r.request, e)]

\* the /api/chat route sends text messages
ChatRequests(t) ==
    { ChatRequest(u, ch, id, Input(t), "text") :
        u \in Users, ch \in Characters \cup {UnknownCharacter},
        id \in {NoId, StaleId} \cup DOMAIN conversations }

\* redis lpush: the value becomes the head of the list
lpush(list, v) == <<v>> \o list

\* create_conversation, lines 42-47: the character is looked up; a missing
\* character ends create_conversation with an error, which chat raises
create_conversation(t, r) ==
    /\ \E found \in character_found(r.request.character_id) :
         /\ faults' = faults + Cost(found \/ r.request.character_id \notin Characters)
         /\ turn' = [turn EXCEPT ![t] =
                       IF found
                       THEN [r EXCEPT !.pc = "create_set"]
                       ELSE Failed([r EXCEPT !.create_failed = TRUE],
                                   Raised("create", "character_not_found"))]
    /\ UNCHANGED store

\* chat is called: it looks the request's conversation up when the request
\* names one, and turns to create_conversation when it has found none
chat_begin(t, req) ==
    /\ TurnArrives(t)
    /\ LET r == [turn[t] EXCEPT !.route = "chat", !.request = req] IN
       IF req.conversation_id = NoId
       THEN create_conversation(t, r)
       ELSE /\ \E conv \in get_conversation(req.conversation_id) :
                 /\ faults' = faults + ReadCost(req.conversation_id, conv)
                 /\ turn' = [turn EXCEPT ![t] =
                               IF conv = None
                               THEN [r EXCEPT !.pc = "create"]
                               ELSE [r EXCEPT !.conversation = conv,
                                              !.conversation_id = conv.conversation_id,
                                              !.pc = "add_user_get"]]
            /\ UNCHANGED store
    /\ UNCHANGED audio

\* chat has found no conversation under the id of the request
chat_create(t) ==
    /\ turn[t].pc = "create"
    /\ create_conversation(t, turn[t])
    /\ UNCHANGED audio

\* create_conversation adds the id to the user's list before it saves the
\* conversation, also when the save then fails
create_conversation_set_data_pushes_first(t) ==
    /\ turn[t].pc = "create_set"
    /\ LET req == turn[t].request
           cid == ConversationIdOf(t)
       IN  /\ user_conversations' =
                  [user_conversations EXCEPT ![req.user_id] = lpush(@, cid)]
           /\ \/ /\ conversations' =
                        set_data(conversations, cid,
                                 NewConversation(cid, req.user_id, req.character_id))
                 /\ turn' = [turn EXCEPT ![t].pc = "create_push_character"]
                 /\ UNCHANGED faults
              \/ /\ CanFail(1)
                 /\ faults' = faults + 1
                 /\ turn' = [turn EXCEPT ![t] =
                               Failed([@ EXCEPT !.create_failed = TRUE],
                                      Raised("create", "save_failed"))]
                 /\ UNCHANGED conversations
    /\ UNCHANGED <<audio, character_conversations>>

\* create_conversation, lines 50-74 and 91-95: the id is made and the new
\* conversation stored with set_data; when that fails create_conversation
\* returns an error, which chat raises
create_conversation_set_data(t) ==
    /\ turn[t].pc = "create_set"
    /\ LET req == turn[t].request
           cid == ConversationIdOf(t)
       IN  \/ /\ conversations' =
                     set_data(conversations, cid,
                              NewConversation(cid, req.user_id, req.character_id))
              /\ turn' = [turn EXCEPT ![t].pc = "create_push_user"]
              /\ UNCHANGED faults
           \/ /\ CanFail(1)
              /\ faults' = faults + 1
              /\ turn' = [turn EXCEPT ![t] =
                            Failed([@ EXCEPT !.create_failed = TRUE],
                                   Raised("create", "save_failed"))]
              /\ UNCHANGED conversations
    /\ UNCHANGED <<audio, user_conversations, character_conversations>>

\* create_conversation, line 79: the id is pushed on the list of the user; a
\* push that fails is not noticed
create_conversation_push_user(t) ==
    /\ turn[t].pc = "create_push_user"
    /\ \/ /\ user_conversations' =
                 [user_conversations EXCEPT
                     ![turn[t].request.user_id] = lpush(@, ConversationIdOf(t))]
          /\ UNCHANGED faults
       \/ /\ CanFail(1)
          /\ faults' = faults + 1
          /\ UNCHANGED user_conversations
    /\ turn' = [turn EXCEPT ![t].pc = "create_push_character"]
    /\ UNCHANGED <<audio, conversations, character_conversations>>

\* create_conversation, lines 83-89, and lines 194-197 of chat: the id is
\* pushed on the list of the character (a push that fails is not noticed),
\* create_conversation returns success and chat takes the id from the result
create_conversation_push_character(t) ==
    /\ turn[t].pc = "create_push_character"
    /\ \/ /\ character_conversations' =
                 [character_conversations EXCEPT
                     ![turn[t].request.character_id] = lpush(@, ConversationIdOf(t))]
          /\ UNCHANGED faults
       \/ /\ CanFail(1)
          /\ faults' = faults + 1
          /\ UNCHANGED character_conversations
    /\ turn' = [turn EXCEPT ![t] =
                  [@ EXCEPT !.created = TRUE,
                            !.conversation_id = ConversationIdOf(t),
                            !.pc = "read_back"]]
    /\ UNCHANGED <<audio, conversations, user_conversations>>

\* line 198 of chat: the conversation just created is read back from the
\* store; chat goes on with what the read returns, None included
chat_read_back(t) ==
    /\ turn[t].pc = "read_back"
    /\ \E conv \in get_conversation(turn[t].conversation_id) :
         /\ faults' = faults + ReadCost(turn[t].conversation_id, conv)
         /\ turn' = [turn EXCEPT ![t] =
                       [@ EXCEPT !.conversation = conv, !.pc = "add_user_get"]]
    /\ UNCHANGED <<audio, store>>

\* add_message reads the conversation it is to append to
add_message_get(t, stage) ==
    /\ turn[t].pc = stage \o "_get"
    /\ \E conv \in get_conversation(turn[t].conversation_id) :
         /\ turn' = [turn EXCEPT ![t] =
                       IF conv = None
                       THEN Failed(@, Raised(stage, "add_message_failed"))
                       ELSE [@ EXCEPT !.loaded = conv, !.pc = stage \o "_save"]]
         /\ faults' = faults + ReadCost(turn[t].conversation_id, conv)
    /\ UNCHANGED <<audio, store>>

\* add_message appends the message to its copy and saves the copy under the
\* key of the conversation, also when the key has been deleted since the copy
\* was read; it returns the message whether the save succeeded or not, and
\* chat goes on
add_message_save(t, stage, msg, next) ==
    /\ turn[t].pc = stage \o "_save"
    /\ LET new == [turn[t].loaded EXCEPT !.messages = Append(@, msg)]
       IN  \E saved \in BOOLEAN :
             /\ CanFail(Cost(saved))
             /\ faults' = faults + Cost(saved)
             /\ conversations' =
                    IF saved
                    THEN set_data(conversations, new.conversation_id, new)
                    ELSE conversations
             /\ turn' = [turn EXCEPT ![t] = next]
    /\ UNCHANGED <<audio, user_conversations, character_conversations>>

\* the message list chat passes to the completion
ChatMessages(r) ==
    IF r.conversation # None
    THEN build_chat_messages(r.conversation, r.request.character_id)
    ELSE <<[role |-> "system", content |-> PromptTemplate(r.request.character_id)]>>

\* lines 219-225 of chat: the message list is built from the conversation
\* chat holds and the completion is asked for
Complete(r) ==
    [r EXCEPT !.messages = ChatMessages(r), !.completions = @ + 1,
              !.completion = "asked", !.pc = "completion"]

\* a completion that fails is asked for once more
chat_completion_retries(r, n) ==
    { [r EXCEPT !.completion = "ok", !.ai_content = Reply(n), !.pc = "add_ai_get"] }
    \cup
    { Failed([r EXCEPT !.completions = @ + 1, !.completion = "failed"],
             Raised("completion", "upstream_error")) }

\* what dashscope.chat_completion, called once, comes back with: the reply,
\* or a failure that chat raises
chat_completion(r, n) ==
    { [r EXCEPT !.completion = "ok", !.ai_content = Reply(n), !.pc = "add_ai_get"] }
    \cup
    { Failed([r EXCEPT !.completion = "failed"],
             Raised("completion", "upstream_error")) }

\* lines 243-253 of chat, after the reply has been added: the response
Respond(r, msg) ==
    [r EXCEPT !.pc = "done", !.response = ChatResponse(r, msg)]

chat_add_user_get(t) == add_message_get(t, "add_user")

\* lines 203-211 of chat: the user's message is added
chat_add_user_save(t) ==
    add_message_save(t, "add_user",
                     Message(MessageIdOf(turn[t].request.message.n, "user"), "user",
                             turn[t].request.message, turn[t].request.message_type),
                     [turn[t] EXCEPT !.loaded = None, !.pc = "get_character"])

\* lines 214-225 of chat: the character is looked up; when it is there the
\* message list is built and sent to the completion
chat_get_character(t) ==
    /\ turn[t].pc = "get_character"
    /\ \E found \in character_found(turn[t].request.character_id) :
         /\ faults' = faults
                + Cost(found \/ turn[t].request.character_id \notin Characters)
         /\ turn' = [turn EXCEPT ![t] =
                       IF found
                       THEN Complete(@)
                       ELSE Failed(@, Raised("character", "character_not_found"))]
    /\ UNCHANGED <<audio, store>>

\* line 225 of chat: the awaited completion comes back
chat_completion_returns(t) ==
    /\ turn[t].pc = "completion"
    /\ \E o \in chat_completion(turn[t], turn[t].request.message.n) :
         turn' = [turn EXCEPT ![t] = o]
    /\ UNCHANGED <<audio, store, faults>>

chat_add_ai_get(t) == add_message_get(t, "add_ai")

\* lines 231-253 of chat: the reply is added and the response made
chat_add_ai_save(t) ==
    LET msg == Message(MessageIdOf(turn[t].request.message.n, "assistant"),
                       "assistant", turn[t].ai_content, "text")
    IN  add_message_save(t, "add_ai", msg,
                         Respond([turn[t] EXCEPT !.loaded = None], msg))

\* the /api/audio/voice-chat route: AudioService has no process_voice_chat, the call
\* raises AttributeError and the route answers with the error, whether the
\* completion and the synthesis services are up or down
voice_chat(t) ==
    /\ TurnArrives(t)
    /\ \E u \in Users, ch \in Characters, cu \in BOOLEAN, su \in BOOLEAN :
         turn' = [turn EXCEPT ![t] =
                    [@ EXCEPT !.route = "voice_chat",
                              !.request = ChatRequest(u, ch, NoId, Input(t), "audio"),
                              !.completion_up = cu,
                              !.synthesis_up = su,
                              !.pc = "done",
                              !.response = [success |-> FALSE,
                                            error |-> "AttributeError"]]]
    /\ UNCHANGED <<audio, store, faults>>

\* a step of a chat call in progress
ChatStep(t) ==
    \/ chat_create(t)
    \/ create_conversation_set_data(t)
    \/ create_conversation_push_user(t)
    \/ create_conversation_push_character(t)
    \/ chat_read_back(t)
    \/ chat_add_user_get(t)
    \/ chat_add_user_save(t)
    \/ chat_get_character(t)
    \/ chat_completion_returns(t)
    \/ chat_add_ai_get(t)
    \/ chat_add_ai_save(t)

NextChat ==
    \/ \E t \in Turns : \E req \in ChatRequests(t) : chat_begin(t, req)
    \/ \E t \in Turns : ChatStep(t)
    \/ \E t \in Turns : voice_chat(t)

SpecChat == Init /\ [][NextChat]_vars

(* ----------------------- update_conversation_title ----------------------- *)
\* the title a caller passes
NewTitle == [k |-> "title", n |-> 1]

\* update_conversation_title, lines 452-454: the conversation is read; when
\* there is none the call returns False
update_conversation_title(t, id, title) ==
    /\ TurnArrives(t)
    /\ \E conv \in get_conversation(id) :
         /\ faults' = faults + ReadCost(id, conv)
         /\ turn' = [turn EXCEPT ![t] =
                       [@ EXCEPT !.route = "update_conversation_title",
                                 !.request = [conversation_id |-> id, title |-> title],
                                 !.conversation_id = id,
                                 !.loaded = conv,
                                 !.pc = IF conv = None THEN "done" ELSE "title_save",
                                 !.response = IF conv = None THEN FALSE ELSE None]]
    /\ UNCHANGED <<audio, store>>

\* update_conversation_title, lines 456-459: the copy read, with the new
\* title, is written back whole by _save_conversation
update_conversation_title_save(t) ==
    /\ turn[t].pc = "title_save"
    /\ \E saved \in BOOLEAN :
         /\ CanFail(Cost(saved))
         /\ faults' = faults + Cost(saved)
         /\ conversations' =
                IF saved
                THEN set_data(conversations, turn[t].conversation_id,
                              [turn[t].loaded EXCEPT !.title = turn[t].request.title])
                ELSE conversations
         /\ turn' = [turn EXCEPT ![t] =
                       [@ EXCEPT !.loaded = None, !.pc = "done", !.response = saved]]
    /\ UNCHANGED <<audio, user_conversations, character_conversations>>

\* chat turns, and calls of update_conversation_title by a caller of the
\* service (no route of app.py calls it)
NextTitle ==
    \/ NextChat
    \/ \E t \in Turns : \E id \in DOMAIN conversations \cup {StaleId} :
          update_conversation_title(t, id, NewTitle)
    \/ \E t \in Turns : update_conversation_title_save(t)

SpecTitle == Init /\ [][NextTitle]_vars

(* ----------------------- turns on one conversation ---------------------- *)
\* a stored conversation, and chat called on it again and again: each call
\* runs alone and the store does not fail
HistInit ==
    /\ AudioInit
    /\ conversations = [x \in {1} |-> NewConversation(1, "u1", "c1")]
    /\ user_conversations = [u \in Users |-> IF u = "u1" THEN <<1>> ELSE <<>>]
    /\ character_conversations = [ch \in Characters |-> <<1>>]
    /\ faults = MaxFaults
    /\ turn = [t \in Turns |-> IdleTurn]

UserMessages(msgs) == { i \in 1..Len(msgs) : msgs[i].role = "user" }

\* chat is called on the conversation once the call before it has returned
HistTurn ==
    LET n == Cardinality(UserMessages(conversations[1].messages)) + 1 IN
    /\ turn[1].pc \in {"idle", "done"}
    /\ Len(conversations[1].messages) < MaxHistory
    /\ \E conv \in get_conversation(1) :
         turn' = [turn EXCEPT ![1] =
                    [IdleTurn EXCEPT !.route = "chat",
                                     !.request = ChatRequest("u1", "c1", 1, Input(n),
                                                             "text"),
                                     !.conversation = conv,
                                     !.conversation_id = conv.conversation_id,
                                     !.pc = "add_user_get"]]
    /\ UNCHANGED <<audio, store, faults>>

NextHist ==
    \/ HistTurn
    \/ chat_add_user_get(1)
    \/ chat_add_user_save(1)
    \/ chat_get_character(1)
    \/ chat_completion_returns(1)
    \/ chat_add_ai_get(1)
    \/ chat_add_ai_save(1)

SpecHist == HistInit /\ [][NextHist]_vars

(* ------------------ a conversation of another user ----------------------- *)
\* a user other than the one whose requests are served, and the conversation
\* create_conversation has stored for them
OtherUser == "u2"
OthersConversationId == 98

\* the store holds the other user's conversation, and no turn has arrived
OthersStore ==
    /\ conversations =
           (OthersConversationId :> NewConversation(OthersConversationId, OtherUser, "c1"))
    /\ user_conversations =
           [u \in Users \cup {OtherUser} |->
               IF u = OtherUser THEN <<OthersConversationId>> ELSE <<>>]
    /\ character_conversations = [ch \in Characters |-> <<OthersConversationId>>]
    /\ faults = 0
    /\ turn = [t \in Turns |-> IdleTurn]

InitOwn == AudioInit /\ OthersStore

SpecOwn == InitOwn /\ [][NextChat]_vars

(* ------------------------- delete_conversation --------------------------- *)
\* the conversations create_conversation has stored: those with an odd id for
\* the first user, the others for the second, all with one character
Stored == 1..MaxStored
OwnerOf(id) == IF id % 2 = 1 THEN "u1" ELSE OtherUser

\* the ids up to n of one owner (of every owner for ""), newest first: the
\* list the lpush of create_conversation has built
RECURSIVE NewestFirst(_, _)
NewestFirst(n, owner) ==
    IF n = 0 THEN <<>>
    ELSE IF owner = "" \/ OwnerOf(n) = owner
         THEN <<n>> \o NewestFirst(n - 1, owner)
         ELSE NewestFirst(n - 1, owner)

InitDel ==
    /\ AudioInit
    /\ conversations = [id \in Stored |-> NewConversation(id, OwnerOf(id), "c1")]
    /\ user_conversations =
           [u \in Users \cup {OtherUser} |-> NewestFirst(MaxStored, u)]
    /\ character_conversations = [ch \in Characters |-> NewestFirst(MaxStored, "")]
    /\ faults = 0
    /\ turn = [t \in Turns |-> IdleTurn]

\* the list _remove_from_list works on: that of the conversation's user, or
\* that of its character
ListOf(which, conv) ==
    IF which = "user" THEN user_conversations[conv.user_id]
    ELSE character_conversations[conv.character_id]

\* the list is given a new value, the other lists stay
SetList(which, conv, v) ==
    IF which = "user"
    THEN /\ user_conversations' = [user_conversations EXCEPT ![conv.user_id] = v]
         /\ UNCHANGED character_conversations
    ELSE /\ character_conversations' =
                [character_conversations EXCEPT ![conv.character_id] = v]
         /\ UNCHANGED user_conversations

\* _remove_from_list returns: delete_conversation goes on with the list of
\* the character, and returns True after it
Leave(r, which) ==
    IF which = "user"
    THEN [r EXCEPT !.pc = "remove_character_range", !.items = <<>>, !.todo = <<>>]
    ELSE [r EXCEPT !.pc = "done", !.response = TRUE]

\* delete_conversation, lines 409-411: the conversation is read; when there
\* is none the call returns False
delete_conversation(t, id) ==
    /\ TurnArrives(t)
    /\ \E conv \in get_conversation(id) :
         /\ faults' = faults + ReadCost(id, conv)
         /\ turn' = [turn EXCEPT ![t] =
                       [@ EXCEPT !.route = "delete_conversation",
                                 !.request = [conversation_id |-> id],
                                 !.conversation_id = id,
                                 !.loaded = conv,
                                 !.pc = IF conv = None THEN "done" ELSE "delete_data",
                                 !.response = IF conv = None THEN FALSE ELSE None]]
    /\ UNCHANGED <<audio, store>>

\* delete_conversation, lines 414-416 and 428: the key of the conversation is
\* deleted; delete_data answers False when the store fails or the key is no
\* longer there, and then the lists are left alone
delete_conversation_data(t) ==
    /\ turn[t].pc = "delete_data"
    /\ \/ /\ turn[t].conversation_id \in DOMAIN conversations
          /\ conversations' = Removed(conversations, turn[t].conversation_id)
          /\ turn' = [turn EXCEPT ![t].pc = "remove_user_range"]
          /\ UNCHANGED faults
       \/ /\ turn[t].conversation_id \notin DOMAIN conversations
          /\ turn' = [turn EXCEPT ![t] = [@ EXCEPT !.pc = "done", !.response = FALSE]]
          /\ UNCHANGED <<conversations, faults>>
       \/ /\ turn[t].conversation_id \in DOMAIN conversations
          /\ CanFail(1)
          /\ faults' = faults + 1
          /\ turn' = [turn EXCEPT ![t] = [@ EXCEPT !.pc = "done", !.response = FALSE]]
          /\ UNCHANGED conversations
    /\ UNCHANGED <<audio, user_conversations, character_conversations>>

\* _remove_from_list, line 438: the items of the list are read with
\* list_range (uuid strings, which its JSON decoding leaves as they are; a
\* read that fails gives []); when the item is not among them nothing is done
remove_from_list_range(t, which) ==
    /\ turn[t].pc = "remove_" \o which \o "_range"
    /\ \E items \in {ListOf(which, turn[t].loaded)}
                       \cup (IF CanFail(1) THEN {<<>>} ELSE {}) :
         /\ faults' = faults + Cost(items = ListOf(which, turn[t].loaded))
         /\ turn' = [turn EXCEPT ![t] =
                       IF \E i \in 1..Len(items) : items[i] = turn[t].conversation_id
                       THEN [@ EXCEPT !.items = items,
                                      !.pc = "remove_" \o which \o "_delete"]
                       ELSE Leave(@, which)]
    /\ UNCHANGED <<audio, store>>

\* _remove_from_list, line 441: the list is deleted (a delete that fails
\* leaves it, and is not noticed); the items to push again are the others
remove_from_list_delete(t, which) ==
    /\ turn[t].pc = "remove_" \o which \o "_delete"
    /\ \/ /\ SetList(which, turn[t].loaded, <<>>)
          /\ UNCHANGED faults
       \/ /\ CanFail(1)
          /\ faults' = faults + 1
          /\ UNCHANGED <<user_conversations, character_conversations>>
    /\ LET others == SelectSeq(turn[t].items,
                               LAMBDA x : x # turn[t].conversation_id)
       IN  turn' = [turn EXCEPT ![t] =
                      IF others = <<>>
                      THEN Leave(@, which)
                      ELSE [@ EXCEPT !.todo = others,
                                     !.pc = "remove_" \o which \o "_push"]]
    /\ UNCHANGED <<audio, conversations>>

\* _remove_from_list, lines 443-445: the next of the other items is pushed
\* with list_push, whose default is lpush (a push that fails is not noticed)
remove_from_list_push(t, which) ==
    /\ turn[t].pc = "remove_" \o which \o "_push"
    /\ \/ /\ SetList(which, turn[t].loaded,
                     lpush(ListOf(which, turn[t].loaded), Head(turn[t].todo)))
          /\ UNCHANGED faults
       \/ /\ CanFail(1)
          /\ faults' = faults + 1
          /\ UNCHANGED <<user_conversations, character_conversations>>
    /\ turn' = [turn EXCEPT ![t] =
                  IF Tail(turn[t].todo) = <<>>
                  THEN Leave(@, which)
                  ELSE [@ EXCEPT !.todo = Tail(@)]]
    /\ UNCHANGED <<audio, conversations>>

\* a step of a delete_conversation call in progress
DeleteStep(t) ==
    \/ delete_conversation_data(t)
    \/ \E which \in {"user", "character"} : remove_from_list_range(t, which)
    \/ \E which \in {"user", "character"} : remove_from_list_delete(t, which)
    \/ \E which \in {"user", "character"} : remove_from_list_push(t, which)

NextDel ==
    \/ \E t \in Turns : \E id \in DOMAIN conversations \cup {StaleId} :
          delete_conversation(t, id)
    \/ \E t \in Turns : DeleteStep(t)

SpecDel == InitDel /\ [][NextDel]_vars

\* the service as a whole: chat turns together with calls of
\* update_conversation_title and delete_conversation on the conversations the
\* turns have created
NextService == NextTitle \/ NextDel

SpecService == Init /\ [][NextService]_vars

(* --------------------------- fair scheduling ---------------------------- *)
\* a request thread that can take a step of its call eventually takes it; the
\* stream owes nothing: it may never deliver and never confirm closure, and a
\* client may never send another request
FairSpec == Spec /\ \A c \in Calls : WF_vars(Step(c))

(* ------------------------- properties: helpers -------------------------- *)
\* a final event whose text is non-blank after trimming
IsBlank(t) == \A i \in 1..Len(t) : t[i] = " "
IsFinalFragment(e) == e.dict /\ e.final /\ e.text # NoneText /\ ~IsBlank(e.text)

RECURSIVE SpaceJoin(_)
SpaceJoin(ts) ==
    IF ts = <<>> THEN <<>>
    ELSE IF Len(ts) = 1 THEN ts[1]
    ELSE ts[1] \o SP \o SpaceJoin(Tail(ts))

RECURSIVE FragmentTexts(_)
FragmentTexts(log) ==
    IF log = <<>> THEN <<>>
    ELSE IF IsFinalFragment(Head(log))
         THEN <<Head(log).text>> \o FragmentTexts(Tail(log))
         ELSE FragmentTexts(Tail(log))

\* what the claims call the transcript of the events a stream has delivered
Transcript(s) == SpaceJoin(FragmentTexts(delivered[s]))

Registered(s) == s \in DOMAIN active_sessions
StopCall(c) == op[c] = "stop"
FeedCall(c) == op[c] = "feed"
Done(c) == pc[c] = "done"

(* ------------------------------- C1 ------------------------------------- *)
\* C1: for any sequence of events delivered to a session, the text its
\* handler has accumulated is the space-joined concatenation of exactly the
\* final events whose text is non-blank after trimming, in delivery order;
\* interim events never appear in it.
C1_AccumulatedText ==
    \A s \in SessionIds : final_text[s] = Transcript(s)

\* an interim event, a blank final event and two fragments have been folded
C1_Witness ==
    /\ Len(delivered[1]) = 4
    /\ \E i \in 1..4 : ~delivered[1][i].final
    /\ \E i \in 1..4 : delivered[1][i].final /\ delivered[1][i].text = SP
    /\ Len(FragmentTexts(delivered[1])) = 2
    /\ final_text[1] = <<"a", " ", " ", "b">>

(* ------------------------------- C2 ------------------------------------- *)
\* C2: the text stop_session returns contains every non-blank final fragment
\* the stream delivers up to the point it confirms closure, fragments
\* delivered after the stop was requested included.
C2_StopReturnsEveryFragment ==
    \A c \in Calls :
        (StopCall(c) /\ Done(c) /\ invoked_stop[c] /\ stream[sid[c]] = "closed")
            => ("text" \in DOMAIN result[c] /\ result[c].text = Transcript(sid[c]))

(* ------------------------------- C3 ------------------------------------- *)
\* C3: a stop_session that begins after an earlier stop_session on the same
\* id has returned (and while no other stop on that id is running) returns
\* success with empty text and never invokes the stream's stop.
C3_SecondStopIsEmpty ==
    \A c \in Calls :
        (StopCall(c) /\ after_stop[c])
            => /\ ~invoked_stop[c]
               /\ Done(c) => result[c] = StopOk(<<>>)

\* a session that was registered and holds text has been stopped twice in a row
C3_Witness ==
    \E c \in Calls :
        /\ StopCall(c) /\ after_stop[c] /\ Done(c)
        /\ sid[c] \in SessionIds
        /\ stop_calls[sid[c]] = 1
        /\ \E d \in Calls \ {c} :
              StopCall(d) /\ sid[d] = sid[c] /\ Done(d) /\ result[d] = StopOk(<<"a">>)

(* ------------------------------- C4 ------------------------------------- *)
\* C4: every step of a stop_session whose id is in neither map of the
\* registry when it begins leaves both maps unchanged, and the call returns
\* success with empty text.
C4_UnknownStop ==
    [][\A c \in Calls :
          (op'[c] = "stop" /\ unreg_at_call'[c] /\ pc'[c] # pc[c])
              => /\ registry' = registry
                 /\ pc'[c] = "done" => result'[c] = StopOk(<<>>)]_vars

\* a stop on an id that was never issued has returned while a session is registered
C4_Witness ==
    \E c \in Calls :
        /\ StopCall(c) /\ unreg_at_call[c] /\ Done(c)
        /\ sid[c] = UnknownId
        /\ result[c] = StopOk(<<>>)
        /\ DOMAIN active_sessions # {}

(* ------------------------------- C5 ------------------------------------- *)
\* C5: feed_audio on a session whose stream is closed returns the
\* SessionNotActive error.
C5_ClosedFeedNotActive ==
    \A c \in Calls :
        (FeedCall(c) /\ closed_at_call[c] /\ Done(c))
            => result[c] = FeedError(SessionNotActive)

(* ------------------------------- C6 ------------------------------------- *)
\* what the registry and the accumulator hold for one session
SessionView(t) ==
    <<t \in DOMAIN active_sessions,
      IF t \in DOMAIN active_sessions THEN active_sessions[t] ELSE <<>>,
      t \in DOMAIN recognition_callbacks,
      final_text[t]>>

\* the step is a step of a feed_audio or of a stop_session on id s, or a step
\* of on_event for an event of s's stream: its entry, where the handler's text
\* grows, or its store into active_sessions
ActsOn(s) ==
    \/ \E c \in Calls : op'[c] \in {"feed", "stop"} /\ sid'[c] = s /\ pc'[c] # pc[c]
    \/ s \in SessionIds /\ (EventArrives(s) \/ EventStores(s))

\* C6: two start calls never get the same session id, and a feed_audio, a
\* transcript event or a stop on one session changes neither the accumulated
\* text nor the registration of any other session.
C6_Independent ==
    [][/\ \A c, d \in Calls :
             (c # d /\ op'[c] = "start" /\ op'[d] = "start") => sid'[c] # sid'[d]
       /\ \A s \in SessionIds \cup {UnknownId} :
             ActsOn(s) => \A t \in SessionIds \ {s} : SessionView(t)' = SessionView(t)
      ]_vars

\* two sessions are registered, one has had a sentence of its stream stored
\* by on_event and been fed, the other is untouched
C6_Witness ==
    \E s, t \in SessionIds :
        /\ s # t /\ Registered(s) /\ Registered(t)
        /\ s \notin at_store
        /\ active_sessions[s].recognized_text = <<"a">>
        /\ active_sessions[t].recognized_text = <<>>
        /\ \E c \in Calls : FeedCall(c) /\ sid[c] = s /\ Done(c) /\ result[c] = FeedOk

(* ------------------------------- C7 ------------------------------------- *)
\* the stream of s closed although nobody had asked it to stop
ClosedOnItsOwn(s) == stream[s] = "dropped"

StopCalledOn(s) == \E c \in Calls : StopCall(c) /\ sid[c] = s

\* C7: when the stream closes on its own, the session is eventually removed
\* from the registry although no stop_session is called.
C7_ReapedAfterClose ==
    \A s \in SessionIds :
        (ClosedOnItsOwn(s) /\ Registered(s)) ~> (~Registered(s) \/ StopCalledOn(s))

(* ------------------------------- C8 ------------------------------------- *)
\* C8: every stop_session call eventually returns, also when the stream never
\* confirms closure.
C8_StopReturns ==
    \A c \in Calls : StopCall(c) ~> Done(c)

(* ------------------------------- C9 ------------------------------------- *)
\* C9: once recognition.stop() has been invoked on a session's stream, no
\* feed_audio hands a frame to that stream (the send_audio_frame step is
\* never taken) and none returns success.
C9_NoFrameAfterStop ==
    [][\A c \in Calls :
          (pc[c] = "feed_send" /\ pc'[c] # pc[c]) => stop_calls[sid[c]] = 0]_vars

(* ------------------------------- C10 ------------------------------------ *)
\* C10: however stop_session calls on one id interleave, the stream's stop is
\* invoked at most once and every call returns success with a text.
C10_ClosedExactlyOnce ==
    /\ \A s \in SessionIds : stop_calls[s] <= 1
    /\ \A c \in Calls :
          (StopCall(c) /\ Done(c))
              => result[c].success /\ "text" \in DOMAIN result[c]

(* ------------------------------- C11 ------------------------------------ *)
TurnDone(t) == turn[t].pc = "done"
ChatTurn(t) == turn[t].route = "chat"
IsReply(resp) == "response" \in DOMAIN resp
UserEntry(t) == [role |-> "user", content |-> turn[t].request.message]

\* C11: a turn whose chat completion failed does not raise: chat returns a
\* response, and its reply text is the (non-empty) apology.
C11_CompletionFailureApologises ==
    \A t \in Turns :
        turn[t].completion = "failed"
            => /\ TurnDone(t)
               /\ IsReply(turn[t].response)
               /\ turn[t].response.response.k = "apology"

\* the completion of a turn has failed after its user message was stored
C11_Witness ==
    \E t \in Turns :
        /\ turn[t].completion = "failed"
        /\ TurnDone(t)
        /\ turn[t].response.response = Apology(Raised("completion", "upstream_error"))

(* ------------------------------- C12 ------------------------------------ *)
\* C12: an audio turn whose completion succeeds while the synthesis fails
\* returns success: the reply text is there, the audio url is null and a
\* warning is set.
C12_SynthesisFailureWarns ==
    \A t \in Turns :
        (TurnDone(t) /\ turn[t].request.message_type = "audio"
            /\ turn[t].completion_up /\ ~turn[t].synthesis_up)
            => /\ IsReply(turn[t].response)
               /\ turn[t].response.response.k = "reply"
               /\ turn[t].response.audio_url = None
               /\ "warning" \in DOMAIN turn[t].response
               /\ turn[t].response.warning # None

(* ------------------------------- C13 ------------------------------------ *)
\* C13: the message list passed to the completion ends with the current
\* input as a user message; for a conversation without history it is exactly
\* the system prompt followed by that user message.
C13_InputIsLastMessage ==
    \A t \in Turns :
        turn[t].completions > 0
            => LET m == turn[t].messages IN
               /\ m[Len(m)] = UserEntry(t)
               /\ (turn[t].conversation = None
                     \/ turn[t].conversation.messages = <<>>)
                      => /\ Len(m) = 2
                         /\ m[1].role = "system"
                         /\ m[2] = UserEntry(t)

(* ------------------------------- C14 ------------------------------------ *)
\* C14: an audio turn whose completion and synthesis both succeed invokes the
\* synthesis on the reply text, and its result carries the reply text, an
\* audio url and no warning.
C14_AudioTurnSynthesises ==
    \A t \in Turns :
        (TurnDone(t) /\ turn[t].request.message_type = "audio"
            /\ turn[t].completion_up /\ turn[t].synthesis_up)
            => /\ turn[t].syntheses = 1
               /\ IsReply(turn[t].response)
               /\ turn[t].response.response.k = "reply"
               /\ turn[t].response.audio_url # None
               /\ "warning" \notin DOMAIN turn[t].response

(* ------------------------------- C15 ------------------------------------ *)
\* some stored conversation holds a message the turn added
RecordedBy(t) ==
    \E id \in DOMAIN conversations :
        \E i \in 1..Len(conversations[id].messages) :
            conversations[id].messages[i].message_id
                \in {MessageIdOf(t, "user"), MessageIdOf(t, "assistant")}

\* C15: a turn whose conversation could be neither resolved nor created ends
\* with the apology and nothing else: the step in which the creation fails
\* leaves the store and the two lists as they were, no message of the turn is
\* recorded and the completion is not called.
C15_FailedCreateHasNoEffect ==
    /\ [](\A t \in Turns :
            turn[t].create_failed
                => /\ TurnDone(t)
                   /\ IsReply(turn[t].response)
                   /\ turn[t].response.response.k = "apology"
                   /\ turn[t].completions = 0
                   /\ ~RecordedBy(t)
                   /\ ConversationIdOf(t) \notin DOMAIN conversations)
    /\ [][\A t \in Turns :
            (~turn[t].create_failed /\ turn'[t].create_failed)
                => UNCHANGED store]_vars

\* a creation has failed on its save, for a character that exists, while an
\* earlier turn's conversation is in the store
C15_Witness ==
    \E t \in Turns :
        /\ turn[t].create_failed
        /\ turn[t].request.character_id \in Characters
        /\ turn[t].response.response = Apology(Raised("create", "save_failed"))
        /\ DOMAIN conversations # {}

(* ------------------------------- C16 ------------------------------------ *)
\* C16: whenever the conversation of a turn was resolved or created, the
\* result carries that conversation's id, also when the completion or a later
\* stage failed; only a failed resolution leaves the result without one.
C16_ResultCarriesConversationId ==
    \A t \in Turns :
        (TurnDone(t) /\ ChatTurn(t))
            => IF turn[t].conversation_id # NoId
               THEN turn[t].response.conversation_id = turn[t].conversation_id
               ELSE turn[t].create_failed

(* ------------------------------- C17 ------------------------------------ *)
\* C17: a turn invokes the chat completion at most once; a failed completion
\* is not retried.
C17_CompletionAtMostOnce ==
    \A t \in Turns : turn[t].completions <= 1

\* a completion was invoked, failed, and the turn is over
C17_Witness ==
    \E t \in Turns :
        /\ TurnDone(t)
        /\ turn[t].completion = "failed"
        /\ turn[t].completions = 1

(* ------------------------------- C18 ------------------------------------ *)
\* C18: the built message list starts with exactly one system message, which
\* carries the persona prompt, followed by at most 20 history entries: the 20
\* most recent messages of the conversation, in stored order.
C18_SystemThenWindow ==
    \A t \in Turns :
        (turn[t].completions > 0 /\ turn[t].conversation # None)
            => LET stored == turn[t].conversation.messages
                   m == turn[t].messages
                   n == Len(stored)
                   k == Len(m) - 1
               IN  /\ k >= 0
                   /\ m[1] = [role |-> "system",
                              content |-> EnhancedPrompt(turn[t].request.character_id)]
                   /\ \A i \in 2..Len(m) : m[i].role # "system"
                   /\ k = IF n < 20 THEN n ELSE 20
                   /\ \A i \in 1..k :
                        m[i + 1] = [role |-> stored[n - k + i].role,
                                    content |-> stored[n - k + i].content]

\* a list has been built from a conversation of 21 messages: the oldest one
\* is left out
C18_Witness ==
    \E t \in Turns :
        /\ turn[t].completions > 0
        /\ Len(turn[t].conversation.messages) = 21
        /\ Len(turn[t].messages) = 21
        /\ turn[t].messages[2].content = turn[t].conversation.messages[2].content

(* ------------------------------- C19 ------------------------------------ *)
IsPrefix(a, b) == Len(a) <= Len(b) /\ SubSeq(b, 1, Len(a)) = a

\* C19: while a session stays registered its accumulated text only grows: in
\* every step the text before is a prefix of the text after, in the handler
\* and in the session's recognized_text.
C19_TextOnlyGrows ==
    [][\A s \in SessionIds :
        (Registered(s) /\ s \in DOMAIN active_sessions')
            => /\ IsPrefix(final_text[s], final_text'[s])
               /\ IsPrefix(active_sessions[s].recognized_text,
                           active_sessions'[s].recognized_text)]_vars

\* the text of a registered session has grown twice
C19_Witness ==
    /\ Registered(1)
    /\ Len(FragmentTexts(delivered[1])) = 2
    /\ delivered[1][1].text # delivered[1][Len(delivered[1])].text
    /\ IsFinalFragment(delivered[1][Len(delivered[1])])
    /\ active_sessions[1].recognized_text = final_text[1]
    /\ Len(final_text[1]) > Len(delivered[1][1].text)

(* ------------------------------- C20 ------------------------------------ *)
LastDelivered(log) == log[Len(log)]

\* C20: an interim event, a blank final event or a malformed event leaves the
\* accumulated text as it was, in the handler and in the session, and no
\* error leaves the callback.
C20_OtherEventsChangeNothing ==
    [][\A s \in SessionIds :
        (Len(delivered'[s]) = Len(delivered[s]) + 1
            /\ ~IsFinalFragment(LastDelivered(delivered'[s])))
            => /\ final_text'[s] = final_text[s]
               /\ active_sessions' = active_sessions
               /\ ~cb_error']_vars

\* after a fragment, an interim event, a blank final event and a malformed
\* event have been delivered and the text is still the fragment
C20_Witness ==
    /\ Len(delivered[1]) = 4
    /\ IsFinalFragment(delivered[1][1])
    /\ \E i \in 2..4 : delivered[1][i].dict /\ ~delivered[1][i].final
    /\ \E i \in 2..4 : delivered[1][i].final /\ delivered[1][i].text \in {<<>>, SP}
    /\ \E i \in 2..4 : ~delivered[1][i].dict \/ delivered[1][i].text = NoneText
    /\ final_text[1] = delivered[1][1].text
    /\ active_sessions[1].recognized_text = delivered[1][1].text
    /\ ~cb_error

(* ------------------------------- C21 ------------------------------------ *)
StartCall(c) == op[c] = "start"
IsTaggedError(r) == "success" \in DOMAIN r /\ ~r.success /\ "error" \in DOMAIN r

\* C21: when the recognition stream cannot be opened, start_session returns a
\* tagged error and registers nothing: the step in which the opening fails
\* leaves active_sessions and recognition_callbacks as they were, and the id
\* of the failed start is in neither map.
C21_FailedOpenRegistersNothing ==
    /\ [](\A c \in Calls :
            (StartCall(c) /\ Done(c) /\ ~result[c].success)
                => /\ IsTaggedError(result[c])
                   /\ sid[c] \notin DOMAIN active_sessions
                   /\ sid[c] \notin DOMAIN recognition_callbacks)
    /\ [][\A c \in Calls :
            (pc[c] = "start_open" /\ pc'[c] = "done") => UNCHANGED registry]_vars

\* an opening has failed while another session is registered
C21_Witness ==
    \E c \in Calls :
        /\ StartCall(c) /\ Done(c)
        /\ result[c] = [success |-> FALSE, error |-> StreamErrorText]
        /\ DOMAIN active_sessions # {}
        /\ stream[sid[c]] = "unopened"

(* ------------------------------- C22 ------------------------------------ *)
\* C22: a feed_audio whose session id is not in the registry returns the
\* session-not-found error in the step that looks the id up: that step hands
\* no frame to a stream (the call never reaches send_audio_frame) and changes
\* no session, no handler text and no stream.
C22_FeedUnknownIsNotFound ==
    [][\A c \in Calls :
        (pc[c] = "idle" /\ op'[c] = "feed" /\ sid'[c] \notin DOMAIN active_sessions)
            => /\ pc'[c] = "done"
               /\ result'[c] = FeedError(SessionNotFound)
               /\ UNCHANGED <<registry, final_text, stream, stop_calls>>]_vars

\* feed_audio has answered not-found for the id of a session that was started
\* and has been stopped since
C22_Witness ==
    \E c \in Calls :
        /\ FeedCall(c) /\ Done(c)
        /\ sid[c] \in known /\ sid[c] \in stop_returned
        /\ result[c] = FeedError(SessionNotFound)
        /\ stop_calls[sid[c]] = 1

(* ------------------------------- C23 ------------------------------------ *)
\* C23: a stop_session that found its session registered returns success
\* with the text the session has accumulated, and when it returns the id is
\* in neither map of the registry.
C23_StopReturnsTextAndUnregisters ==
    \A c \in Calls :
        (StopCall(c) /\ Done(c) /\ invoked_stop[c])
            => /\ result[c].success
               /\ "text" \in DOMAIN result[c]
               /\ result[c].text = final_text[sid[c]]
               /\ sid[c] \notin DOMAIN active_sessions
               /\ sid[c] \notin DOMAIN recognition_callbacks

(* ------------------------------- C24 ------------------------------------ *)
\* a feed_audio or a start_session returns in this step
Returns(c) == pc[c] # "done" /\ pc'[c] = "done"

\* the session of a start that returns is in both maps, active, bound to the
\* stream and to the handler made by this call, which are open; the id was
\* returned to nobody before
ReturnsRegistered(c) ==
    /\ result'[c] = [success |-> TRUE, session_id |-> sid[c]]
    /\ sid[c] \notin known
    /\ sid[c] \in DOMAIN active_sessions'
    /\ active_sessions'[sid[c]].active
    /\ active_sessions'[sid[c]].recognition_instance = sid[c]
    /\ sid[c] \in DOMAIN recognition_callbacks'
    /\ recognition_callbacks'[sid[c]] = sid[c]
    /\ stream[sid[c]] # "unopened"

\* the feed_audio was called on an id a start had returned, no stop_session
\* has been called on the id so far and its stream is still open
FeedOnStarted(c) ==
    /\ op[c] = "feed"
    /\ sid[c] \in known
    /\ stop_calls[sid[c]] = 0
    /\ stream[sid[c]] = "started"

\* C24 as claimed: a start_session that succeeds returns a new id that is
\* registered as active, with empty accumulated text, bound to its own newly
\* opened stream, and a feed_audio on that id then succeeds.
C24_StartReturnsEmptySession ==
    [][/\ \A c \in Calls :
            (op[c] = "start" /\ Returns(c) /\ result'[c].success)
                => /\ ReturnsRegistered(c)
                   /\ active_sessions'[sid[c]].recognized_text = <<>>
       /\ \A c \in Calls :
            (FeedOnStarted(c) /\ Returns(c)) => result'[c] = FeedOk
      ]_vars

\* C24: a start_session that succeeds registers, after its stream has been
\* opened, an id that was in neither map and had been returned to nobody,
\* as active, with empty accumulated text, bound to the stream and the
\* handler made for it. When it returns the id, the session is in both maps,
\* active and bound as before, and its accumulated text is empty or what
\* on_event has stored of its own handler's text since the registration. A
\* feed_audio on a returned id whose stream is open and on which no
\* stop_session has been called succeeds, unless its audio_data is not a list
\* of samples.
C24_StartRegistersFreshSession ==
    [][/\ \A c \in Calls :
            (pc[c] = "start_register" /\ pc'[c] # pc[c])
                => /\ sid[c] \notin DOMAIN active_sessions
                   /\ sid[c] \notin DOMAIN recognition_callbacks
                   /\ sid[c] \notin known
                   /\ sid[c] \in DOMAIN active_sessions'
                   /\ active_sessions'[sid[c]].active
                   /\ active_sessions'[sid[c]].recognized_text = <<>>
                   /\ active_sessions'[sid[c]].recognition_instance = sid[c]
                   /\ stream[sid[c]] # "unopened"
       /\ \A c \in Calls :
            (op[c] = "start" /\ Returns(c) /\ result'[c].success)
                => /\ ReturnsRegistered(c)
                   /\ sid[c] \notin DOMAIN recognition_callbacks
                   /\ \/ active_sessions'[sid[c]].recognized_text = <<>>
                      \/ /\ active_sessions'[sid[c]].recognized_text # <<>>
                         /\ IsPrefix(active_sessions'[sid[c]].recognized_text,
                                     final_text'[sid[c]])
       /\ \A c \in Calls :
            (FeedOnStarted(c) /\ Returns(c))
                => result'[c] \in {FeedOk, FeedError(ValueErrorText)}
      ]_vars

\* a session has been started and a feed_audio on its id has succeeded, no
\* stop having been called on it
C24_Witness ==
    \E c, d \in Calls :
        /\ StartCall(c) /\ Done(c) /\ result[c].success
        /\ FeedCall(d) /\ Done(d) /\ sid[d] = sid[c]
        /\ result[d] = FeedOk
        /\ stop_calls[sid[c]] = 0
        /\ Registered(sid[c])

(* ------------------------------- C25 ------------------------------------ *)
\* C25: in every reachable state each registered session holds one stream
\* handle and one accumulator, the ones made by its own start call (the
\* handler in recognition_callbacks is the same one), and no two registered
\* sessions hold the same stream handle or the same accumulator.
C25_HandlesAreExclusive ==
    /\ \A s \in DOMAIN active_sessions :
          /\ active_sessions[s].recognition_instance = s
          /\ active_sessions[s].callback_handler = s
          /\ s \in DOMAIN recognition_callbacks
                => recognition_callbacks[s] = active_sessions[s].callback_handler
    /\ \A s, t \in DOMAIN active_sessions :
          s # t => /\ active_sessions[s].recognition_instance
                        # active_sessions[t].recognition_instance
                   /\ active_sessions[s].callback_handler
                        # active_sessions[t].callback_handler
    /\ \A s, t \in DOMAIN recognition_callbacks :
          s # t => recognition_callbacks[s] # recognition_callbacks[t]

\* two sessions are registered at once, both streams open
C25_Witness ==
    \E s, t \in DOMAIN active_sessions :
        /\ s # t
        /\ stream[s] = "started" /\ stream[t] = "started"
        /\ s \in DOMAIN recognition_callbacks /\ t \in DOMAIN recognition_callbacks

(* ------------------------------- C26 ------------------------------------ *)
IsSuccess(r) == "success" \in DOMAIN r /\ r.success

\* C26: start_session, feed_audio and stop_session never let an exception
\* out: whatever the stream does, every finished call has returned a success
\* payload or a tagged error.
C26_NoExceptionEscapes ==
    \A c \in Calls :
        Done(c) => /\ "raised" \notin DOMAIN result[c]
                   /\ IsSuccess(result[c]) \/ IsTaggedError(result[c])

\* an opening has failed, and a send_audio_frame has raised on a stream that
\* had dropped
C26_Witness ==
    /\ \E c \in Calls :
          StartCall(c) /\ Done(c) /\ result[c] = FeedError(StreamErrorText)
    /\ \E c \in Calls :
          /\ FeedCall(c) /\ Done(c) /\ result[c] = FeedError(StreamErrorText)
          /\ stream[sid[c]] = "dropped"

(* ------------------------------- C27 ------------------------------------ *)
\* the call is inside recognition.stop(), waiting for its stream to close
WaitsOnStream(c) == pc[c] = "stop_wait" /\ ~StreamClosed(sid[c])
InProgress(c) == pc[c] \notin {"idle", "done"}

\* C27: while a stop_session waits on the stream of its session, a feed_audio
\* or stop_session in progress on a different session id can take its next
\* step, unless it is itself waiting on its own stream: the waiting call
\* holds nothing the other call needs.
C27_StopDoesNotBlockOthers ==
    \A c, d \in Calls :
        (WaitsOnStream(c) /\ d # c /\ sid[d] # sid[c]
            /\ op[d] \in {"feed", "stop"} /\ InProgress(d) /\ ~WaitsOnStream(d))
            => ENABLED ServeStep(d)

\* a stop_session is still waiting on its stream, and a feed_audio and a
\* stop_session that arrived after it, on another session, have both finished
C27_Witness ==
    \E c, d, e \in Calls :
        /\ WaitsOnStream(c) /\ c < d /\ c < e
        /\ FeedCall(d) /\ Done(d) /\ result[d] = FeedOk
        /\ StopCall(e) /\ Done(e) /\ "text" \in DOMAIN result[e]
        /\ sid[d] = sid[e] /\ sid[d] # sid[c] /\ sid[d] \in known

(* ------------------------------- C28 ------------------------------------ *)
\* the message with this id is in the stored conversation
Holds(id, mid) ==
    /\ id \in DOMAIN conversations
    /\ \E i \in 1..Len(conversations[id].messages) :
          conversations[id].messages[i].message_id = mid

LastStored(id) == conversations[id].messages[Len(conversations[id].messages)]

\* C28: in the step in which the chat completion of a turn fails, the reply
\* becomes the apology carrying the error the completion reported, no
\* assistant message of the turn is in any conversation, and the user's
\* message of the turn, which add_message has saved (no store operation has
\* failed), is in the conversation of the turn.
C28_FailureKeepsUserTurn ==
    [][\A t \in Turns :
        (turn[t].completion # "failed" /\ turn'[t].completion = "failed")
            => /\ TurnDone(t)'
               /\ turn'[t].response.response =
                      Apology(Raised("completion", "upstream_error"))
               /\ \A id \in DOMAIN conversations' :
                      ~Holds(id, MessageIdOf(t, "assistant"))'
               /\ faults = 0
                     => Holds(turn[t].conversation_id, MessageIdOf(t, "user"))']_vars

(* ------------------------------- C29 ------------------------------------ *)
\* the stored conversation holds the first message somewhere before the second
InOrder(id, first, second) ==
    /\ id \in DOMAIN conversations
    /\ \E i, j \in 1..Len(conversations[id].messages) :
          /\ i < j
          /\ conversations[id].messages[i].message_id = first
          /\ conversations[id].messages[j].message_id = second

\* C29: when a turn whose completion succeeded ends, its conversation holds
\* the user's message of the turn and, after it, the assistant's message; the
\* result names that assistant message and gives the completion's content as
\* the reply.
C29_SuccessAppendsUserThenAssistant ==
    [][\A t \in Turns :
        (turn[t].completion = "ok" /\ ~TurnDone(t) /\ TurnDone(t)')
            => /\ InOrder(turn[t].conversation_id, MessageIdOf(t, "user"),
                          MessageIdOf(t, "assistant"))'
               /\ turn'[t].response.message_id = MessageIdOf(t, "assistant")
               /\ turn'[t].response.response = turn[t].ai_content]_vars

(* ------------------------------- C30 ------------------------------------ *)
\* the request of the turn named a conversation and chat found none under it
ResolvedToNothing(t) ==
    /\ ChatTurn(t)
    /\ turn[t].request.conversation_id # NoId
    /\ turn[t].created

\* C30: a turn whose request names a conversation that resolves to nothing
\* runs in a conversation chat creates for it: the user's message is saved to
\* the new conversation, and the result carries the new conversation's id,
\* not the requested one.
C30_UnresolvedIdGetsNewConversation ==
    /\ [](\A t \in Turns :
            (ResolvedToNothing(t) /\ TurnDone(t))
                => /\ turn[t].response.conversation_id = ConversationIdOf(t)
                   /\ turn[t].response.conversation_id
                          # turn[t].request.conversation_id)
    /\ [][\A t \in Turns :
            (ResolvedToNothing(t) /\ turn[t].pc = "add_user_save"
               /\ turn'[t].pc # "add_user_save" /\ conversations' # conversations)
                => LastStored(ConversationIdOf(t))'.message_id
                       = MessageIdOf(t, "user")]_vars

(* ------------------------------- C31 ------------------------------------ *)
\* the id of the message the add_message call of a turn at this stage returns
AddedBy(t) ==
    IF turn[t].pc = "add_user_save" THEN MessageIdOf(t, "user")
    ELSE MessageIdOf(t, "assistant")

\* C31: the message list of a conversation is append-only under add_message:
\* every step leaves each stored list a prefix of the list stored after it, and
\* the message an add_message call returns is in the stored conversation when
\* the call returns.
C31_MessagesAppendOnly ==
    [][/\ \A id \in DOMAIN conversations :
            /\ id \in DOMAIN conversations'
            /\ IsPrefix(conversations[id].messages, conversations'[id].messages)
       /\ \A t \in Turns :
            (turn[t].pc \in {"add_user_save", "add_ai_save"} /\ turn'[t] # turn[t])
                => Holds(turn[t].conversation_id, AddedBy(t))']_vars

(* ------------------------------- C32 ------------------------------------ *)
\* C32: the recognized text stored for a registered session is the text its
\* callback handler has accumulated, also when sentences were delivered between
\* the start of the stream and the registration of the session.
C32_StoredTextIsHandlerText ==
    \A s \in DOMAIN active_sessions :
        active_sessions[s].recognized_text = final_text[s]

(* ------------------------------- C33 ------------------------------------ *)
\* the call is past recognition.stop() while the stream is still closing:
\* stop() comes back normally only after the closure is confirmed, so this
\* call's stop() has raised
StopRaised(c) ==
    /\ StopCall(c)
    /\ invoked_stop[c]
    /\ pc[c] \in {"stop_del", "stop_cb_check", "stop_cb_del"}
    /\ stream[sid[c]] = "stopping"

\* C33: a stop call whose recognition.stop() raised still returns success
\* with the text it read, and the id is in neither map when it returns.
C33_StopRaisedStillUnregisters ==
    [][\A c \in Calls :
        (StopRaised(c) /\ Done(c)')
            => /\ result'[c] = StopOk(loc_text[c])
               /\ sid[c] \notin DOMAIN active_sessions'
               /\ sid[c] \notin DOMAIN recognition_callbacks']_vars

(* ------------------------------- C34 ------------------------------------ *)
\* C34: once a stop has removed a session, no step puts its id back into
\* active_sessions or recognition_callbacks, whether an event of its stream
\* arrives after the removal or was inside on_event, between the membership
\* test and the store, when the removal happened; and no exception ever
\* leaves on_event.
C34_LateEventRecreatesNothing ==
    /\ []~cb_error
    /\ [][\A s \in known :
            /\ s \notin DOMAIN active_sessions => s \notin DOMAIN active_sessions'
            /\ s \notin DOMAIN recognition_callbacks
                   => s \notin DOMAIN recognition_callbacks']_vars

\* a final sentence is inside on_event, past the membership test, and a stop
\* that has returned the text has removed the session from both maps
C34_Witness ==
    \E s \in known :
        /\ s \in at_store
        /\ s \notin DOMAIN active_sessions
        /\ s \notin DOMAIN recognition_callbacks
        /\ final_text[s] # <<>>
        /\ \E c \in Calls : StopCall(c) /\ sid[c] = s /\ Done(c)
                            /\ result[c] = StopOk(loc_text[c])

(* ------------------------------- C35 ------------------------------------ *)
\* C35: a step in which chat's add_message saves a conversation saves one
\* that belongs to the user of the request; in particular a request that
\* carries the id of another user's conversation leaves that conversation as
\* it was.
C35_OnlyOwnConversations ==
    [][\A t \in Turns :
        (turn[t].pc \in {"add_user_save", "add_ai_save"} /\ turn'[t] # turn[t]
           /\ conversations' # conversations)
            => conversations'[turn[t].conversation_id].user_id
                   = turn[t].request.user_id]_vars

(* ------------------------------- C36 ------------------------------------ *)
InList(x, list) == \E i \in 1..Len(list) : list[i] = x

\* C36: create_conversation is all-or-nothing: the step in which it succeeds
\* stores the conversation and puts its id on the list of the user and on
\* the list of the character, and the step in which it fails leaves the
\* conversations and both lists as they were.
C36_CreateAllOrNothing ==
    [][\A t \in Turns :
        /\ (~turn[t].created /\ turn'[t].created)
              => /\ ConversationIdOf(t) \in DOMAIN conversations'
                 /\ InList(ConversationIdOf(t),
                           user_conversations'[turn'[t].request.user_id])
                 /\ InList(ConversationIdOf(t),
                           character_conversations'[turn'[t].request.character_id])
        /\ (~turn[t].create_failed /\ turn'[t].create_failed)
              => UNCHANGED store]_vars

(* ------------------------------- C37 ------------------------------------ *)
\* C37 as claimed: when a start or a stop completes, active_sessions and
\* recognition_callbacks hold the same ids.
C37_SameIdsAtCompletion ==
    [][\A c \in Calls :
        (op[c] \in {"start", "stop"} /\ ~Done(c) /\ Done(c)')
            => DOMAIN active_sessions' = DOMAIN recognition_callbacks']_vars

\* the stop call has passed "del self.active_sessions[session_id]" and not
\* yet "del self.recognition_callbacks[session_id]"
BetweenDeletes(c) ==
    StopCall(c) /\ pc[c] \in {"stop_cb_check", "stop_cb_del"}

\* the start call has passed "self.active_sessions[session_id] = session_data"
\* and not yet "self.recognition_callbacks[session_id] = callback_handler"
BetweenWrites(c) ==
    StartCall(c) /\ pc[c] = "start_callback"

\* C37, amended: active_sessions and recognition_callbacks hold the same ids
\* whenever no stop call stands between its two deletions and no start call
\* between its two writes; in particular after a start or a stop has completed
\* with no other call in that position.
C37_SameIdsWhenNoCallBetweenItsWrites ==
    (\A c \in Calls : ~BetweenDeletes(c) /\ ~BetweenWrites(c))
        => DOMAIN active_sessions = DOMAIN recognition_callbacks

\* a start and a stop have completed, another session is still registered in
\* both maps, and no call stands between its two writes of the maps
C37_Witness ==
    /\ \A c \in Calls : ~BetweenDeletes(c) /\ ~BetweenWrites(c)
    /\ DOMAIN active_sessions # {}
    /\ DOMAIN active_sessions = DOMAIN recognition_callbacks
    /\ \E c \in Calls : StopCall(c) /\ Done(c) /\ sid[c] \in known
                        /\ result[c] = StopOk(loc_text[c])
    /\ \E c \in Calls : StartCall(c) /\ Done(c) /\ IsSuccess(result[c])

(* ------------------------------- C38 ------------------------------------ *)
\* the list without the id, the other ids in the order they had
Without(list, id) == SelectSeq(list, LAMBDA x : x # id)

\* the call is a delete_conversation and no other call has begun
DeletesAlone(t) ==
    /\ turn[t].route = "delete_conversation"
    /\ \A u \in Turns \ {t} : turn[u].pc = "idle"

\* C38: when _remove_from_list, run before any other call has begun and with
\* no failure of the store, has pushed the last item, the list it worked on
\* is the list it read without the id of the conversation: exactly that id
\* is gone and the other ids keep their relative order.
C38_RemoveKeepsOrder ==
    [][\A t \in Turns : \A which \in {"user", "character"} :
        (DeletesAlone(t) /\ faults' = 0
           /\ turn[t].pc = "remove_" \o which \o "_push"
           /\ turn'[t].pc # turn[t].pc)
            => ListOf(which, turn[t].loaded)'
                   = Without(turn[t].items, turn[t].conversation_id)]_vars

====
